---- MODULE Spec2Model ----
(***************************************************************************)
(* CBC ciphertext stealing (package cbccts): the encrypter and decrypter   *)
(* of cbccts.go, driven the way TestCTS and Example drive them: one        *)
(* encrypter and one decrypter are built from the same block primitive and *)
(* IV, a message is encoded into a separate buffer and the result decoded  *)
(* into another one.  A second pair of instances, built the same way,      *)
(* processes the same bytes with dst and src being one buffer.             *)
(*                                                                         *)
(* A byte is scaled down to one bit and a block to BlockSize of them; the  *)
(* block primitive is a keyed permutation of the blocks that is not affine *)
(* over XOR.                                                               *)
(***************************************************************************)
EXTENDS Integers, Sequences, FiniteSets, TLC

\* ---------------------------------------------------------------- bounds

\* bytes per block of the block primitive (aes.BlockSize scaled down)
BlockSize == 3

\* longest message, in bytes
MaxLen == 9

\* longest stream of more than one message, in bytes
MaxStream == 10

\* most CryptBlocks calls made on one instance
MaxCalls == 2

\* --------------------------------------------------------------- formats

CS1 == 1

CS2 == 2

CS3 == 3

\* Format values the constructors accept
Formats == {CS1, CS2, CS3}

\* TestCTS's format 0: the standard library's plain CBC mode
RawCBC == 0

\* ------------------------------------------------------------ byte slices

Byte == {0, 1}

Min(a, b) == IF a < b THEN a ELSE b

\* make([]byte, n)
Zeros(n) == [i \in 1..n |-> 0] \o <<>>

\* s[lo:hi]
Slice(s, lo, hi) == SubSeq(s, lo + 1, hi)

\* copy(buf[lo:hi], from): the shorter of the two lengths is copied
Copy(buf, lo, hi, from) ==
    LET k == Min(hi - lo, Len(from))
    IN  SubSeq(buf, 1, lo) \o SubSeq(from, 1, k) \o SubSeq(buf, lo + k + 1, Len(buf))

\* every byte string of length n
Strings(n) == {x \o <<>> : x \in [1..n -> Byte]}

Blocks == Strings(BlockSize)

\* ---------------------------------------------------- the block primitive

Keys == {0, 1}

RECURSIVE Pow2(_)
Pow2(n) == IF n = 0 THEN 1 ELSE 2 * Pow2(n - 1)

\* a block read as a number, first byte most significant
BlockToNat(x) ==
    LET acc[i \in 0..Len(x)] == IF i = 0 THEN 0 ELSE 2 * acc[i - 1] + x[i]
    IN  acc[Len(x)]

NatToBlock(v) == [i \in 1..BlockSize |-> (v \div Pow2(BlockSize - i)) % 2] \o <<>>

\* cipher.Block.Encrypt of every key: v -> (2v^2 + v)(2k + 1) + k + 1 modulo
\* 2^BlockSize, a permutation that is not affine over XOR, then a rotation of
\* the bytes by one place
EncTable ==
    [k \in Keys |-> [x \in Blocks |->
        LET v == BlockToNat(x)
            w == NatToBlock(((2 * v * v + v) * (2 * k + 1) + k + 1) % Pow2(BlockSize))
        IN  [i \in 1..BlockSize |-> w[(i % BlockSize) + 1]] \o <<>>]]

\* cipher.Block.Decrypt of every key: the inverse permutation
DecTable ==
    [k \in Keys |-> [y \in Blocks |-> CHOOSE x \in Blocks : EncTable[k][x] = y]]

\* cd.block.Encrypt(dst, src), one block, no chaining
BlockEncrypt(k, x) == EncTable[k][x]

\* cd.block.Decrypt(dst, src), one block, no chaining
BlockDecrypt(k, y) == DecTable[k][y]

\* ------------------------------------------------------- the chained codec

XorByte(a, b) == (a + b) % 2

XorBlock(x, y) == [i \in 1..BlockSize |-> XorByte(x[i], y[i])] \o <<>>

\* block i (1-based) of a buffer of whole blocks
BlockAt(s, i) == Slice(s, (i - 1) * BlockSize, i * BlockSize)

\* the blocks p[1..n] laid out one after the other
Flatten(c, n) ==
    [j \in 1..(n * BlockSize) |-> c[((j - 1) \div BlockSize) + 1][((j - 1) % BlockSize) + 1]] \o <<>>

\* cipher.NewCBCEncrypter(b, iv).CryptBlocks(dst, src) on whole blocks: the
\* bytes written and the chaining value left in the codec
RECURSIVE CBCEncryptFrom(_, _, _, _, _)
CBCEncryptFrom(k, iv, src, i, out) ==
    IF i > Len(src) \div BlockSize THEN [out |-> out, iv |-> iv]
    ELSE LET c == BlockEncrypt(k, XorBlock(BlockAt(src, i), iv))
         IN  CBCEncryptFrom(k, c, src, i + 1, out \o c)

\* mutant: the codec forgets the chaining value its call ends with
CBCEncryptNoCarry(k, iv, src) ==
    [out |-> CBCEncryptFrom(k, iv, src, 1, <<>>).out, iv |-> iv]

CBCEncrypt(k, iv, src) == CBCEncryptFrom(k, iv, src, 1, <<>>)

\* cipher.NewCBCDecrypter(b, iv).CryptBlocks(dst, src) on whole blocks
CBCDecrypt(k, iv, src) ==
    LET n == Len(src) \div BlockSize
        prev(i) == IF i = 1 THEN iv ELSE BlockAt(src, i - 1)
        p == [i \in 1..n |-> XorBlock(BlockDecrypt(k, BlockAt(src, i)), prev(i))]
    IN  [out |-> Flatten(p, n), iv |-> IF n = 0 THEN iv ELSE BlockAt(src, n)]

\* ------------------------------------------------------------ the transform

\* What one call leaves behind: the destination buffer, the codec's chaining
\* value, and how the call ended: "none" (it returned), "datasize" (the
\* package's own panic), "range" (the runtime's slice-bounds panic) or
\* "notfull" (the standard library's panic on input that is not whole blocks).
Outcome(dst, iv, err) == [dst |-> dst, iv |-> iv, err |-> err]

\* what src reads after a write to dst: the same bytes when both are one buffer
Reread(alias, dst, src) == IF alias THEN dst ELSE src

\* mutant: the size check looks at pz
SizeCheckPz(py) == py + BlockSize < 0

\* if py < 0: data smaller than a block
SizeCheck(py) == py < 0

\* mutant: no exchange
SwapLastTwoOff(dst, py, pz) == dst

\* mutant: the exchange without tmp, the second copy reading what the first wrote
SwapLastTwoNoTmp(dst, py, pz) ==
    LET dst1 == Copy(dst, py, pz, Slice(dst, pz, Len(dst)))
    IN  Copy(dst1, pz, Len(dst1), Slice(dst1, py, pz))

\* encode, CS3 on aligned text: exchange the last two blocks of dst
SwapLastTwo(dst, py, pz) ==
    LET tmp  == Copy(Zeros(BlockSize), 0, BlockSize, Slice(dst, py, pz))
        dst1 == Copy(dst, py, pz, Slice(dst, pz, Len(dst)))
    IN  Copy(dst1, pz, Len(dst1), tmp)

\* mutant: CS2 laid out as CS1
EncodeTailCS2AsCS1(mode, dst, tmp, py, pz, leftover) ==
    IF mode \in {CS1, CS2}
    THEN LET dst1 == Copy(dst, py, py + leftover, Slice(tmp, 0, leftover))
         IN  Copy(dst1, py + leftover, Len(dst1), Slice(tmp, BlockSize, Len(tmp)))
    ELSE LET dst1 == Copy(dst, py, pz, Slice(tmp, BlockSize, Len(tmp)))
         IN  Copy(dst1, pz, Len(dst1), Slice(tmp, 0, leftover))

\* mutant: the first block of tmp kept whole and the second cut to leftover bytes
EncodeTailE1Whole(mode, dst, tmp, py, pz, leftover) ==
    IF mode = CS1
    THEN LET dst1 == Copy(dst, py, py + leftover, Slice(tmp, BlockSize, BlockSize + leftover))
         IN  Copy(dst1, py + leftover, Len(dst1), Slice(tmp, 0, BlockSize))
    ELSE LET dst1 == Copy(dst, py, pz, Slice(tmp, 0, BlockSize))
         IN  Copy(dst1, pz, Len(dst1), Slice(tmp, BlockSize, BlockSize + leftover))

\* encode, unaligned text: lay the two encrypted blocks of tmp out in dst
EncodeTail(mode, dst, tmp, py, pz, leftover) ==
    IF mode = CS1
    THEN LET dst1 == Copy(dst, py, py + leftover, Slice(tmp, 0, leftover))
         IN  Copy(dst1, py + leftover, Len(dst1), Slice(tmp, BlockSize, Len(tmp)))
    ELSE LET dst1 == Copy(dst, py, pz, Slice(tmp, BlockSize, Len(tmp)))
         IN  Copy(dst1, pz, Len(dst1), Slice(tmp, 0, leftover))

\* cbccts.encode(dst, src) of an encrypter with chaining value iv
encode(key, iv, mode, dst, src, alias) ==
    LET blocksz  == BlockSize
        textlen  == Len(src)
        leftover == textlen % blocksz
    IN  IF leftover = 0
        THEN LET c    == CBCEncrypt(key, iv, src)
                 dst1 == Copy(dst, 0, textlen, c.out)
                 py   == textlen - 2 * blocksz
                 pz   == textlen - blocksz
             IN  IF mode \in {CS1, CS2} THEN Outcome(dst1, c.iv, "none")
                 ELSE IF py < 0 THEN Outcome(dst1, c.iv, "range")
                 ELSE Outcome(SwapLastTwo(dst1, py, pz), c.iv, "none")
        ELSE LET padding == blocksz - leftover
                 buflen  == textlen + padding
                 py      == buflen - 2 * blocksz
                 pz      == buflen - blocksz
             IN  IF SizeCheck(py) THEN Outcome(dst, iv, "datasize")
                 ELSE IF py < 0 THEN Outcome(dst, iv, "range")
                 ELSE LET c1   == CBCEncrypt(key, iv, Slice(src, 0, py))
                          dst1 == Copy(dst, 0, py, c1.out)
                          src1 == Reread(alias, dst1, src)
                          tmp0 == Copy(Zeros(2 * blocksz), 0, blocksz + leftover,
                                       Slice(src1, py, textlen))
                          c2   == CBCEncrypt(key, c1.iv, tmp0)
                      IN  Outcome(EncodeTail(mode, dst1, c2.out, py, pz, leftover),
                                  c2.iv, "none")

\* mutant: src copied to dst as it is
UnswapLastTwoOff(dst, src, py, pz, alias) == Copy(dst, 0, Len(src), src)

\* decode, CS3 on aligned text: copy src to dst with the last two blocks
\* exchanged, by three copies
UnswapLastTwo(dst, src, py, pz, alias) ==
    LET dst1 == Copy(dst, 0, py, Slice(src, 0, py))
        src1 == Reread(alias, dst1, src)
        dst2 == Copy(dst1, py, pz, Slice(src1, pz, Len(src1)))
        src2 == Reread(alias, dst2, src1)
    IN  Copy(dst2, pz, Len(dst2), Slice(src2, py, pz))

\* decode, unaligned text: the partial block to tmp[0:leftover], the full block
\* to tmp[blocksz:]
DecodeTail(mode, src, py, pz, leftover) ==
    LET tmp0 == Zeros(2 * BlockSize)
    IN  IF mode = CS1
        THEN LET tmp1 == Copy(tmp0, 0, leftover, Slice(src, py, py + leftover))
             IN  Copy(tmp1, BlockSize, Len(tmp1), Slice(src, py + leftover, Len(src)))
        ELSE LET tmp1 == Copy(tmp0, 0, leftover, Slice(src, pz, Len(src)))
             IN  Copy(tmp1, BlockSize, Len(tmp1), Slice(src, py, pz))

\* mutant: the overlay starts at 0
OverlayFromZero(tmp, D, leftover) ==
    SubSeq(D, 1, BlockSize) \o SubSeq(tmp, BlockSize + 1, Len(tmp))

\* decode: tmp[i] = D[i] for leftover <= i < blocksz
Overlay(tmp, D, leftover) ==
    SubSeq(tmp, 1, leftover) \o SubSeq(D, leftover + 1, BlockSize) \o SubSeq(tmp, BlockSize + 1, Len(tmp))

\* cbccts.decode(dst, src) of a decrypter with chaining value iv
decode(key, iv, mode, dst, src, alias) ==
    LET blocksz  == BlockSize
        textlen  == Len(src)
        leftover == textlen % blocksz
    IN  IF leftover = 0
        THEN IF mode \in {CS1, CS2}
             THEN LET c == CBCDecrypt(key, iv, src)
                  IN  Outcome(Copy(dst, 0, textlen, c.out), c.iv, "none")
             ELSE LET py == textlen - 2 * blocksz
                      pz == textlen - blocksz
                  IN  IF py < 0 THEN Outcome(dst, iv, "range")
                      ELSE LET dst1 == UnswapLastTwo(dst, src, py, pz, alias)
                               c    == CBCDecrypt(key, iv, dst1)
                           IN  Outcome(Copy(dst1, 0, textlen, c.out), c.iv, "none")
        ELSE LET padding == blocksz - leftover
                 buflen  == textlen + padding
                 py      == buflen - 2 * blocksz
                 pz      == buflen - blocksz
             IN  IF SizeCheck(py) THEN Outcome(dst, iv, "datasize")
                 ELSE IF py < 0 THEN Outcome(dst, iv, "range")
                 ELSE LET c1   == CBCDecrypt(key, iv, Slice(src, 0, py))
                          dst1 == Copy(dst, 0, py, c1.out)
                          src1 == Reread(alias, dst1, src)
                          tmp0 == DecodeTail(mode, src1, py, pz, leftover)
                          D    == BlockDecrypt(key, Slice(tmp0, blocksz, 2 * blocksz))
                          tmp  == Overlay(tmp0, D, leftover)
                          c2   == CBCDecrypt(key, c1.iv, tmp)
                      IN  Outcome(Copy(dst1, py, textlen, c2.out), c2.iv, "none")

\* cipher.BlockMode.CryptBlocks of the plain CBC modes TestCTS builds for format 0
RawCryptBlocks(encoder, key, iv, dst, src) ==
    IF Len(src) % BlockSize # 0 THEN Outcome(dst, iv, "notfull")
    ELSE LET c == IF encoder THEN CBCEncrypt(key, iv, src) ELSE CBCDecrypt(key, iv, src)
         IN  Outcome(Copy(dst, 0, Len(src), c.out), c.iv, "none")

\* (cd *cbccts).CryptBlocks(dst, src), or the plain mode's for format 0
CryptBlocks(encoder, key, iv, mode, dst, src, alias) ==
    IF mode = RawCBC THEN RawCryptBlocks(encoder, key, iv, dst, src)
    ELSE IF encoder THEN encode(key, iv, mode, dst, src, alias)
    ELSE decode(key, iv, mode, dst, src, alias)

\* ------------------------------------------------------------------ state

VARIABLES
    key,       \* the block primitive every instance shares
    iv0,       \* the IV the constructors were given
    encMode,   \* the encrypter's format (RawCBC: a plain CBC encrypter)
    decMode,   \* the decrypter's format
    encIV,     \* the encrypter's chaining value
    decIV,     \* the decrypter's chaining value
    encIVip,   \* chaining value of the encrypter that works in place
    decIVip,   \* chaining value of the decrypter that works in place
    data,      \* the message of the current call
    encBuf,    \* destination of the encrypter, source of the decrypter
    decBuf,    \* destination of the decrypter
    encBufIP,  \* the buffer the in-place encrypter was given as dst and src
    decBufIP,  \* the buffer the in-place decrypter was given as dst and src
    encPrev,   \* the encrypter's chaining value before its last call
    decPrev,   \* the decrypter's chaining value before its last call
    err,       \* how the last call ended
    errIP,     \* how the last in-place call ended
    pc,        \* "new", "ready", "encoded", "received", or the call that
               \* panicked: "encfailed", "decfailed"
    calls,     \* messages handed to the encrypter (or to the lone decrypter)
    sent,      \* all messages so far, concatenated
    wire,      \* all encrypter outputs so far, concatenated
    recv,      \* all decrypter outputs so far, concatenated
    aligned    \* every message so far was a whole number of blocks

vars == <<key, iv0, encMode, decMode, encIV, decIV, encIVip, decIVip, data,
          encBuf, decBuf, encBufIP, decBufIP, encPrev, decPrev, err, errIP, pc,
          calls, sent, wire, recv, aligned>>

\* no instance built
NoMode == -1

\* the IVs: a block of alternating bytes starting with 1
IVs == {[i \in 1..BlockSize |-> i % 2] \o <<>>}

\* a primitive is at hand (aes.NewCipher(key)); no mode is built yet
Init ==
    /\ key \in Keys
    /\ iv0 = Zeros(BlockSize)
    /\ encMode = NoMode /\ decMode = NoMode
    /\ encIV = iv0 /\ decIV = iv0 /\ encIVip = iv0 /\ decIVip = iv0
    /\ encPrev = iv0 /\ decPrev = iv0
    /\ data = <<>>
    /\ encBuf = <<>> /\ decBuf = <<>> /\ encBufIP = <<>> /\ decBufIP = <<>>
    /\ err = "none" /\ errIP = "none"
    /\ pc = "new" /\ calls = 0
    /\ sent = <<>> /\ wire = <<>> /\ recv = <<>>
    /\ aligned = TRUE

\* what a constructor stores as the codec's chaining value:
\* cipher.NewCBCEncrypter(b, iv) / cipher.NewCBCDecrypter(b, iv) copy the IV
NewCodec(iv) == iv

\* NewCBCCTSEncrypter(b, iv, em) and NewCBCCTSDecrypter(b, iv, dm), or
\* cipher.NewCBCEncrypter / cipher.NewCBCDecrypter for format 0, as TestCTS
\* builds them; each is built twice, the second to work in place
NewPair ==
    /\ pc = "new"
    /\ \E iv \in IVs : \E em \in Formats \cup {RawCBC} : \E dm \in Formats \cup {RawCBC} :
        /\ em # RawCBC \/ dm # RawCBC
        /\ iv0' = iv
        /\ encMode' = em /\ decMode' = dm
        /\ encIV' = NewCodec(iv) /\ encIVip' = NewCodec(iv)
        /\ decIV' = NewCodec(iv) /\ decIVip' = NewCodec(iv)
        /\ encPrev' = iv /\ decPrev' = iv
    /\ pc' = "ready"
    /\ UNCHANGED <<key, data, encBuf, decBuf, encBufIP, decBufIP, err, errIP,
                   calls, sent, wire, recv, aligned>>

\* NewCBCCTSDecrypter(b, iv, dm) alone: a receiver with no encrypter of its own
NewDecrypter ==
    /\ pc = "new"
    /\ \E iv \in IVs : \E dm \in Formats :
        /\ iv0' = iv
        /\ decMode' = dm
        /\ decIV' = NewCodec(iv) /\ decIVip' = NewCodec(iv)
        /\ decPrev' = iv
    /\ pc' = "ready"
    /\ UNCHANGED <<key, encMode, encIV, encIVip, encPrev, data, encBuf, decBuf,
                   encBufIP, decBufIP, err, errIP, calls, sent, wire, recv, aligned>>

\* enc.CryptBlocks(encBuf, data) with encBuf := make([]byte, len(data)): the
\* encrypter encodes one message into a separate buffer; the in-place encrypter
\* encodes the same message in the buffer that holds it.  A stream is carried
\* on past its first message between instances of one format.
Encrypt ==
    /\ pc = "ready"
    /\ encMode # NoMode
    /\ calls < MaxCalls
    /\ calls = 0 \/ encMode = decMode
    /\ \E n \in 0..(IF calls = 0 THEN MaxLen ELSE MaxStream - Len(sent)) : \E d \in Strings(n) :
        \E r \in {CryptBlocks(TRUE, key, encIV, encMode, Zeros(n), d, FALSE)} :
        \E ip \in {CryptBlocks(TRUE, key, encIVip, encMode, d, d, TRUE)} :
            /\ data' = d
            /\ encBuf' = r.dst
            /\ encPrev' = encIV
            /\ encIV' = r.iv
            /\ err' = r.err
            /\ encBufIP' = ip.dst
            /\ encIVip' = ip.iv
            /\ errIP' = ip.err
            /\ pc' = IF r.err = "none" THEN "encoded" ELSE "encfailed"
            /\ sent' = sent \o d
            /\ wire' = IF r.err = "none" THEN wire \o r.dst ELSE wire
            /\ aligned' = (aligned /\ n % BlockSize = 0)
    /\ calls' = calls + 1
    /\ UNCHANGED <<key, iv0, encMode, decMode, decIV, decIVip, decBuf, decBufIP,
                   decPrev, recv>>

\* dec.CryptBlocks(decBuf, encBuf) with decBuf := make([]byte, len(data)): the
\* decrypter decodes the encrypter's output into a separate buffer; the in-place
\* decrypter decodes a copy of it in place
Decrypt ==
    /\ pc = "encoded"
    /\ \E r \in {CryptBlocks(FALSE, key, decIV, decMode, Zeros(Len(encBuf)), encBuf, FALSE)} :
       \E ip \in {CryptBlocks(FALSE, key, decIVip, decMode, encBuf, encBuf, TRUE)} :
           /\ decBuf' = r.dst
           /\ decPrev' = decIV
           /\ decIV' = r.iv
           /\ err' = r.err
           /\ decBufIP' = ip.dst
           /\ decIVip' = ip.iv
           /\ errIP' = ip.err
           /\ pc' = IF r.err = "none" THEN "ready" ELSE "decfailed"
           /\ recv' = IF r.err = "none" THEN recv \o r.dst ELSE recv
    /\ UNCHANGED <<key, iv0, encMode, decMode, encIV, encIVip, data, encBuf, encBufIP,
                   encPrev, calls, sent, wire, aligned>>

\* dec.CryptBlocks(decBuf, c) of the lone decrypter, on whatever bytes c arrive
Receive ==
    /\ pc = "ready"
    /\ encMode = NoMode
    /\ \E n \in 0..MaxLen : \E c \in Strings(n) :
        \E r \in {CryptBlocks(FALSE, key, decIV, decMode, Zeros(n), c, FALSE)} :
        \E ip \in {CryptBlocks(FALSE, key, decIVip, decMode, c, c, TRUE)} :
            /\ encBuf' = c
            /\ decBuf' = r.dst
            /\ decPrev' = decIV
            /\ decIV' = r.iv
            /\ err' = r.err
            /\ decBufIP' = ip.dst
            /\ decIVip' = ip.iv
            /\ errIP' = ip.err
            /\ pc' = IF r.err = "none" THEN "received" ELSE "decfailed"
            /\ wire' = wire \o c
            /\ recv' = IF r.err = "none" THEN recv \o r.dst ELSE recv
            /\ aligned' = (n % BlockSize = 0)
    /\ calls' = calls + 1
    /\ UNCHANGED <<key, iv0, encMode, decMode, encIV, encIVip, data, encBufIP, encPrev,
                   sent>>

Next == NewPair \/ NewDecrypter \/ Encrypt \/ Decrypt \/ Receive

Spec == Init /\ [][Next]_vars

\* ----------------------------------------------------------------- claims

\* the last call was the encrypter's
AfterEncrypt == pc \in {"encoded", "encfailed"}

\* the last call was a decrypter's
AfterDecrypt == (pc = "ready" /\ calls >= 1) \/ pc \in {"received", "decfailed"}

\* the encrypter's last call returned and its message and output are at hand
Encoded == pc = "encoded" \/ (pc = "ready" /\ calls >= 1) \/ (pc = "decfailed" /\ encMode # NoMode)

\* a message went through the pair, or one of the two calls panicked
PairDone == encMode # NoMode /\ ((pc = "ready" /\ calls >= 1) \/ pc \in {"encfailed", "decfailed"})

\* the decrypter gave back the message
Reproduced == pc = "ready" /\ calls >= 1 /\ decBuf = data

IsAligned(n) == n % BlockSize = 0

\* the lengths a format takes: more than a block when unaligned, at least one
\* block when aligned, at least two for CS3
ValidLen(mode, n) ==
    IF IsAligned(n) THEN n >= BlockSize /\ (mode = CS3 => n >= 2 * BlockSize)
    ELSE n > BlockSize

\* d with zero bytes added up to the next block boundary
Padded(d) == d \o Zeros((BlockSize - (Len(d) % BlockSize)) % BlockSize)

\* the plain CBC ciphertext of the zero-padded message, chained from the value
\* the encrypter held before the call
Chained == CBCEncrypt(key, encPrev, Padded(data)).out

\* start of the last two blocks of the padded message (tailStart)
TailStart == Len(Padded(data)) - 2 * BlockSize

\* first and second encrypted block of the two-block tail
E1 == Slice(Chained, TailStart, TailStart + BlockSize)

E2 == Slice(Chained, TailStart + BlockSize, TailStart + 2 * BlockSize)

\* a buffer of whole blocks with its last two blocks exchanged
LastTwoExchanged(c) ==
    SubSeq(c, 1, Len(c) - 2 * BlockSize)
      \o SubSeq(c, Len(c) - BlockSize + 1, Len(c))
      \o SubSeq(c, Len(c) - 2 * BlockSize + 1, Len(c) - BlockSize)

\* C1 as stated: with fresh instances of one format, decode(encode(data)) = data
\* for every length n >= BlockSize (one block or more when aligned, more than a
\* block when unaligned)
C1_RoundTripEveryLength ==
    (PairDone /\ calls = 1 /\ encMode \in Formats /\ decMode = encMode
        /\ Len(data) >= BlockSize)
    => Reproduced

\* C1 amended: with fresh instances of one format, decode(encode(data)) = data
\* for every unaligned length above one block and every aligned length of at
\* least one block, at least two blocks under CS3
C1_RoundTrip ==
    (PairDone /\ calls = 1 /\ encMode \in Formats /\ decMode = encMode
        /\ ValidLen(encMode, Len(data)))
    => Reproduced

C1_Witness ==
    /\ calls = 1 /\ encMode = CS3 /\ decMode = CS3
    /\ Len(data) = 2 * BlockSize + 1
    /\ Reproduced /\ encBuf # data

\* C2: on aligned input the CS1 and CS2 encoders give the same bytes and each
\* decoder recovers the other's plaintext; on unaligned input of more than a
\* block the same holds of CS2 and CS3
C2_CS2Interchangeable ==
    (PairDone /\ calls = 1
        /\ \/ {encMode, decMode} = {CS1, CS2} /\ IsAligned(Len(data))
           \/ {encMode, decMode} = {CS2, CS3} /\ ~IsAligned(Len(data))
                 /\ Len(data) > BlockSize)
    => /\ Reproduced
       /\ encBuf = CryptBlocks(TRUE, key, encPrev, decMode, Zeros(Len(data)), data, FALSE).dst

C2_Witness ==
    /\ calls = 1 /\ encMode = CS2 /\ decMode = CS3
    /\ Len(data) = 2 * BlockSize + 2
    /\ Reproduced /\ encBuf # data

\* the pairs the compatibility matrix marks incompatible
Incompatible ==
    \/ {encMode, decMode} = {CS1, CS3}
    \/ {encMode, decMode} = {CS1, CS2} /\ ~IsAligned(Len(data))
    \/ {encMode, decMode} = {CS2, CS3} /\ IsAligned(Len(data))
    \/ {encMode, decMode} = {RawCBC, CS3} /\ IsAligned(Len(data))

\* the two layouts of the ciphertext are the same bytes: the last two chained
\* blocks are equal (aligned), or E1[0:r] E2 = E2 E1[0:r] (unaligned)
LayoutsCoincide ==
    LET n == Len(data)
        r == n % BlockSize
    IN  IF r = 0
        THEN n >= 2 * BlockSize /\ E1 = E2
        ELSE n > BlockSize /\ Slice(E1, 0, r) \o E2 = E2 \o Slice(E1, 0, r)

\* C3 as stated: an incompatible pair never gives the message back
C3_NeverInteroperate ==
    (PairDone /\ calls = 1 /\ Incompatible) => ~Reproduced

\* C3 amended: an incompatible pair gives the message back exactly when the two
\* formats lay the ciphertext of that message out as the same bytes
C3_InteroperateOnlyOnCoincidence ==
    (PairDone /\ calls = 1 /\ Incompatible) => (Reproduced <=> LayoutsCoincide)

C3_Witness ==
    /\ PairDone /\ calls = 1 /\ encMode = CS1 /\ decMode = CS3
    /\ Len(data) = 2 * BlockSize + 1
    /\ pc = "ready" /\ decBuf # data

\* C4 as stated: on every aligned input CS1 and CS2 encode to the plain CBC
\* ciphertext, CS3 to that ciphertext with its last two blocks exchanged, and
\* the CS1/CS2 decoder is plain CBC decryption
C4_AlignedIsPlainCBC ==
    /\ (encMode \in Formats /\ (AfterEncrypt \/ Encoded) /\ IsAligned(Len(data)))
       => /\ pc # "encfailed"
          /\ encBuf = IF encMode = CS3 THEN LastTwoExchanged(Chained) ELSE Chained
    /\ (decMode \in {CS1, CS2} /\ AfterDecrypt /\ IsAligned(Len(encBuf)))
       => /\ pc # "decfailed"
          /\ decBuf = CBCDecrypt(key, decPrev, encBuf).out

\* C4 amended: the same, CS3 on aligned input of at least two blocks
C4_AlignedIsPlainCBCFromTwoBlocks ==
    /\ (encMode \in Formats /\ (AfterEncrypt \/ Encoded) /\ IsAligned(Len(data))
          /\ (encMode = CS3 => Len(data) >= 2 * BlockSize))
       => /\ pc # "encfailed"
          /\ encBuf = IF encMode = CS3 THEN LastTwoExchanged(Chained) ELSE Chained
    /\ (decMode \in {CS1, CS2} /\ AfterDecrypt /\ IsAligned(Len(encBuf)))
       => /\ pc # "decfailed"
          /\ decBuf = CBCDecrypt(key, decPrev, encBuf).out

C4_Witness ==
    /\ pc = "encoded" /\ encMode = CS3 /\ Len(data) = 3 * BlockSize
    /\ encBuf = LastTwoExchanged(Chained) /\ encBuf # Chained

\* C5 as stated: a call that returns leaves in the one buffer given as dst and
\* src the bytes a call with a separate dst leaves there, and the same chaining
\* value
C5_InPlace ==
    /\ pc = "encoded"
       => errIP = "none" /\ encBufIP = encBuf /\ encIVip = encIV
    /\ ((pc = "ready" /\ calls >= 1) \/ pc = "received")
       => errIP = "none" /\ decBufIP = decBuf /\ decIVip = decIV

\* C6: an unaligned input shorter than a block makes either direction of every
\* format panic with the data-size error, dst unwritten and the chaining value
\* as it was
C6_TooSmallRejected ==
    /\ (encMode \in Formats /\ AfterEncrypt
          /\ ~IsAligned(Len(data)) /\ Len(data) < BlockSize)
       => /\ pc = "encfailed" /\ err = "datasize"
          /\ encBuf = Zeros(Len(data)) /\ encIV = encPrev
    /\ (decMode \in Formats /\ AfterDecrypt
          /\ ~IsAligned(Len(encBuf)) /\ Len(encBuf) < BlockSize)
       => /\ pc = "decfailed" /\ err = "datasize"
          /\ decBuf = Zeros(Len(encBuf)) /\ decIV = decPrev

C6_Witness ==
    /\ pc = "decfailed" /\ decMode = CS1 /\ Len(encBuf) = BlockSize - 1
    /\ err = "datasize" /\ encBuf # Zeros(Len(encBuf))

\* C7 as stated: an aligned input of less than two blocks makes CS3 fail with
\* nothing done (the codec not run, dst unwritten, the chaining value as it
\* was), and CS1 and CS2 take the same input
C7_ShortAlignedCS3FailsClean ==
    /\ (encMode = CS3 /\ AfterEncrypt
          /\ IsAligned(Len(data)) /\ Len(data) < 2 * BlockSize)
       => /\ pc = "encfailed" /\ err # "none"
          /\ encBuf = Zeros(Len(data)) /\ encIV = encPrev
    /\ (decMode = CS3 /\ AfterDecrypt
          /\ IsAligned(Len(encBuf)) /\ Len(encBuf) < 2 * BlockSize)
       => /\ pc = "decfailed" /\ err # "none"
          /\ decBuf = Zeros(Len(encBuf)) /\ decIV = decPrev
    /\ (encMode \in {CS1, CS2} /\ AfterEncrypt
          /\ IsAligned(Len(data)) /\ Len(data) < 2 * BlockSize)
       => pc = "encoded"

\* C8 as stated: the encoder of an unaligned message writes E2[0:r] then E1
\* under CS1, and E1 then E2[0:r] under CS2 and CS3
C8_TailKeepsE1 ==
    (encMode \in Formats /\ Encoded /\ ~IsAligned(Len(data)))
    => LET n  == Len(data)
           r  == n % BlockSize
           ts == TailStart
       IN  IF encMode = CS1
           THEN /\ Slice(encBuf, ts, ts + r) = Slice(E2, 0, r)
                /\ Slice(encBuf, ts + r, n) = E1
           ELSE /\ Slice(encBuf, ts, ts + BlockSize) = E1
                /\ Slice(encBuf, ts + BlockSize, n) = Slice(E2, 0, r)

\* C8 amended: the encoder of an unaligned message writes E1[0:r] then E2 under
\* CS1, and E2 then E1[0:r] under CS2 and CS3, after the chained ciphertext of
\* the blocks before the tail; the bytes dropped are the last pad bytes of E1
C8_TailKeepsE2 ==
    (encMode \in Formats /\ Encoded /\ ~IsAligned(Len(data)))
    => LET n  == Len(data)
           r  == n % BlockSize
           ts == TailStart
       IN  /\ Slice(encBuf, 0, ts) = Slice(Chained, 0, ts)
           /\ IF encMode = CS1
              THEN /\ Slice(encBuf, ts, ts + r) = Slice(E1, 0, r)
                   /\ Slice(encBuf, ts + r, n) = E2
              ELSE /\ Slice(encBuf, ts, ts + BlockSize) = E2
                   /\ Slice(encBuf, ts + BlockSize, n) = Slice(E1, 0, r)

C8_Witness ==
    /\ pc = "encoded" /\ encMode = CS1 /\ Len(data) = 2 * BlockSize + 2
    /\ E1 # E2
    /\ Slice(E1, 0, 2) # Slice(E2, 0, 2)

\* C9: under CS1 or CS2, whole-block sub-buffers processed in order by one
\* instance give, concatenated, what one call on a fresh instance with the same
\* primitive, IV, direction and format gives for the whole input
C9_StreamContinuation ==
    /\ (encMode \in {CS1, CS2} /\ decMode = encMode /\ aligned /\ calls >= 1)
       => /\ pc \in {"encoded", "ready"}
          /\ wire = CryptBlocks(TRUE, key, iv0, encMode, Zeros(Len(sent)), sent, FALSE).dst
    /\ (encMode \in {CS1, CS2} /\ decMode = encMode /\ aligned /\ calls >= 1
          /\ pc = "ready")
       => recv = CryptBlocks(FALSE, key, iv0, decMode, Zeros(Len(wire)), wire, FALSE).dst

C9_Witness ==
    /\ pc = "ready" /\ encMode = CS2 /\ decMode = CS2 /\ aligned
    /\ calls = 2 /\ Len(sent) = 3 * BlockSize /\ Len(data) = 2 * BlockSize
    /\ recv = sent

\* C10: with one format on both sides and messages of valid length, after each
\* message the decoded bytes are the message and the two chaining values are
\* equal, both the last full chained ciphertext block (E2 of the stolen tail,
\* or the final block before CS3's exchange)
C10_Synchronized ==
    (PairDone /\ encMode \in Formats /\ decMode = encMode
        /\ ValidLen(encMode, Len(data)))
    => /\ Reproduced
       /\ encIV = decIV
       /\ encIV = E2

C10_Witness ==
    /\ pc = "ready" /\ encMode = CS3 /\ decMode = CS3 /\ calls = 2
    /\ Len(sent) - Len(data) = 2 * BlockSize
    /\ ~IsAligned(Len(data))
    /\ decBuf = data /\ encIV = decIV
====
